---- MODULE Spec2Model ----
(***************************************************************************)
(* A model of miniredis (src/miniredis/server.py): the RedisServer select  *)
(* loop, its command handlers and the thread-per-connection variant.       *)
(*                                                                         *)
(* The server is Python 2.  Every argument a handler receives was read     *)
(* from the wire by handle() (rfile.read(length)) and is therefore a str;  *)
(* the model keeps the Python type of every value it stores or returns,    *)
(* because the handlers' behaviour depends on it (float + str raises       *)
(* TypeError, str <= float is False, int("x") raises ValueError, the dict  *)
(* self.tables distinguishes the key 1 from the key "1").                  *)
(***************************************************************************)
EXTENDS Integers, Sequences, FiniteSets, TLC

VARIABLES
    halt,       \* RedisServer.halt
    pc,         \* where run() is: "init", "running", "stopped", "crashed"
    clients,    \* keys of RedisServer.clients: the registered connections
    client,     \* the local variable `client` of run(): last accepted
    cdb,        \* RedisConnection.db of every accepted connection
    tables,     \* RedisServer.tables: database id -> (key -> value)
    timeouts,   \* RedisServer.timeouts: "<db> <key>" -> deadline
    now,        \* time.time(), in whole seconds
    last,       \* the last request served: connection, command, reply
    nLeft,      \* number of requests the model still serves
    threads,    \* ThreadedRedisServer: where each connection's thread is
    channels,   \* RedisServer.channels: channel -> list of connections
    wfile,      \* RedisConnection.wfile: what is written and not flushed
    wire,       \* the pub/sub envelopes flushed to each connection
    asked,      \* the <<connection, channel>> of the SUBSCRIBEs in force
    disk,       \* what the store self.meta has committed to disk
    rfile       \* RedisConnection.rfile and its socket: the requests unread

vars ==
    <<halt, pc, clients, client, cdb, tables, timeouts, now, last, nLeft,
      threads, channels, wfile, wire, asked, disk, rfile>>

(* The state of pub/sub and of the snapshot. *)
pubsub == <<channels, wfile, wire, asked>>

-----------------------------------------------------------------------------
(* Bounds of the model. *)

MaxConns == 2
MaxCmds == 3
MaxTime == 1
MaxInt == 3
MaxThreads == 2
MaxThreadCmds == 2

(* The strings clients send. *)
Keys == {"a", "b"}
Data == {"x", "1"}
Elems == {"x"}
Fields == {"f"}
Whens == {"1", "2"}
DbArgs == {"0", "1"}

-----------------------------------------------------------------------------
(* Python values, each with its type. *)

PyStr(s) == [t |-> "str", v |-> s]
PyInt(n) == [t |-> "int", v |-> n]
PyFloat(n) == [t |-> "float", v |-> n]
PyBool(b) == [t |-> "bool", v |-> b]
PyDeque(l) == [t |-> "deque", v |-> l]
PyDict(h) == [t |-> "dict", v |-> h]
PyList(l) == [t |-> "list", v |-> l]
PyNone == [t |-> "None", v |-> 0]
Raise(e) == [t |-> "raise", v |-> e]
RedisMessage(m) == [t |-> "RedisMessage", v |-> m]
RedisError(m) == [t |-> "RedisError", v |-> m]
EMPTY_SCALAR == [t |-> "RedisConstant", v |-> "EmptyScalar"]
EMPTY_LIST == [t |-> "RedisConstant", v |-> "EmptyList"]
BAD_VALUE == RedisError("Operation against a key holding the wrong kind of value")

IsNumber(o) == o.t \in {"int", "float", "bool"}

(* Python 2's a <= b.  Numbers compare by value; a number is smaller than  *)
(* an object of any other type, so a str is never <= a float.              *)
PyLessEq(a, b) ==
    IF IsNumber(a) /\ IsNumber(b) THEN a.v <= b.v
    ELSE IF IsNumber(a) THEN TRUE
    ELSE IF IsNumber(b) THEN FALSE
    ELSE a.t = b.t /\ a.t = "str" /\ a.v = b.v

(* str(n) and "%s" % n of a small integer, and int(s) of a string. *)
Digits == <<"0", "1", "2", "3", "4", "5", "6", "7", "8", "9">>

RECURSIVE ToStr(_)
ToStr(n) ==
    IF n < 0 THEN "-" \o ToStr(0 - n)
    ELSE IF n < 10 THEN Digits[n + 1]
    ELSE ToStr(n \div 10) \o Digits[(n % 10) + 1]

(* One digit, with or without a minus sign before it. *)
IsIntStr(s) ==
    LET d == IF Len(s) = 2 /\ SubSeq(s, 1, 1) = "-" THEN SubSeq(s, 2, 2) ELSE s
    IN \E i \in 1..Len(Digits) : Digits[i] = d

ParseInt(s) ==
    LET neg == Len(s) = 2 /\ SubSeq(s, 1, 1) = "-"
        d == IF neg THEN SubSeq(s, 2, 2) ELSE s
        n == (CHOOSE i \in 1..Len(Digits) : Digits[i] = d) - 1
    IN IF neg THEN 0 - n ELSE n

(* int(o): ValueError on a str that is no number, TypeError on a          *)
(* container.                                                              *)
int(o) ==
    CASE o.t = "int" -> o
      [] o.t = "str" -> IF IsIntStr(o.v) THEN PyInt(ParseInt(o.v))
                        ELSE Raise("ValueError")
      [] OTHER -> Raise("TypeError")

(* repr of the str items of a dict, as str(dict) prints them. *)
RECURSIVE ReprItems(_, _)
ReprItems(h, fs) ==
    IF fs = {} THEN ""
    ELSE LET f == CHOOSE g \in fs : TRUE
             rest == fs \ {f}
         IN "'" \o f \o "': '" \o h[f] \o "'"
            \o (IF rest = {} THEN "" ELSE ", ") \o ReprItems(h, rest)

RECURSIVE ReprSeq(_, _)
ReprSeq(l, i) ==
    IF i > Len(l) THEN ""
    ELSE "'" \o l[i] \o "'" \o (IF i < Len(l) THEN ", " ELSE "")
         \o ReprSeq(l, i + 1)

(* str(o) *)
str(o) ==
    CASE o.t = "str" -> o.v
      [] o.t = "int" -> ToStr(o.v)
      [] o.t = "dict" -> "{" \o ReprItems(o.v, DOMAIN o.v) \o "}"
      [] o.t = "deque" -> "deque([" \o ReprSeq(o.v, 1) \o "])"
      [] OTHER -> "?"

-----------------------------------------------------------------------------
(* dict helpers *)

EmptyDict == [k \in {} |-> PyNone]

Put(d, k, v) == [j \in (DOMAIN d) \cup {k} |-> IF j = k THEN v ELSE d[j]]

Drop(d, k) == [j \in (DOMAIN d) \ {k} |-> d[j]]

(* The id of a database in self.tables: the int of select(), or the str    *)
(* MOVE passes on from the wire.                                          *)
DbInt(n) == PyInt(n)
DbStr(s) == PyStr(s)

(* "%s %s" % (client.db, key) *)
TKey(db, key) == ToStr(db) \o " " \o key

(* Haystack.get(name, default): what the store holds under name, which   *)
(* is what the last commit() wrote; default when it holds nothing.       *)
MetaGet(name, default) == IF name \in DOMAIN disk THEN disk[name] ELSE default

(* The part of the server's state the handlers read and write. *)
St(tb, to) == [tables |-> tb, timeouts |-> to]

(* client.table: the dict self.tables[client.db], shared by reference. *)
Table(s, c) == s.tables[DbInt(cdb[c])]

SetTable(s, c, tbl) ==
    [s EXCEPT !.tables = [s.tables EXCEPT ![DbInt(cdb[c])] = tbl]]

(* What a handler hands back: the state it leaves and what it returns. *)
Ret(s, o) == [tables |-> s.tables, timeouts |-> s.timeouts, ret |-> o]

StOf(r) == St(r.tables, r.timeouts)

-----------------------------------------------------------------------------
(* Keys *)

handle_persist(s, c, key) ==
    Ret(St(s.tables, Drop(s.timeouts, TKey(cdb[c], key))), PyNone)

(* handle_del without its test `key not in client.table`. *)
handle_del_blind(s, c, key) ==
    LET s1 == StOf(handle_persist(s, c, key))
    IN Ret(SetTable(s1, c, Drop(Table(s1, c), key)), PyInt(1))

handle_del(s, c, key) ==
    LET s1 == StOf(handle_persist(s, c, key))
    IN IF key \notin DOMAIN Table(s1, c) THEN Ret(s1, PyInt(0))
       ELSE Ret(SetTable(s1, c, Drop(Table(s1, c), key)), PyInt(1))

(* check_ttl comparing the deadline as the number it spells. *)
check_ttl_as_number(s, c, key) ==
    LET k == TKey(cdb[c], key)
        d == IF k \in DOMAIN s.timeouts THEN int(s.timeouts[k]) ELSE PyNone
    IN IF d.t = "int" /\ d.v <= now
       THEN StOf(handle_del(s, c, key))
       ELSE s

check_ttl(s, c, key) ==
    LET k == TKey(cdb[c], key)
    IN IF k \in DOMAIN s.timeouts /\ PyLessEq(s.timeouts[k], PyFloat(now))
       THEN StOf(handle_del(s, c, key))
       ELSE s

handle_exists(s, c, key) ==
    LET s1 == check_ttl(s, c, key)
    IN Ret(s1, PyBool(key \in DOMAIN Table(s1, c)))

(* a + b of Python: numbers add, a number and a str raise TypeError. *)
PyAdd(a, b) ==
    IF IsNumber(a) /\ IsNumber(b) THEN PyFloat(a.v + b.v)
    ELSE Raise("TypeError")

handle_expire(s, c, key, ttl) ==
    IF key \notin DOMAIN Table(s, c) THEN Ret(s, PyInt(0))
    ELSE LET when == PyAdd(PyFloat(now), ttl)
         IN IF when.t = "raise" THEN Ret(s, when)
            ELSE Ret(St(s.tables, Put(s.timeouts, TKey(cdb[c], key), when)),
                     PyInt(1))

handle_expireat(s, c, key, when) ==
    IF key \notin DOMAIN Table(s, c) THEN Ret(s, PyInt(0))
    ELSE Ret(St(s.tables, Put(s.timeouts, TKey(cdb[c], key), when)), PyInt(1))

(* s * n of Python for a str s: s repeated n times. *)
RECURSIVE Times(_, _)
Times(s, n) ==
    IF n = 0 THEN ""
    ELSE IF n % 2 = 0 THEN LET h == Times(s, n \div 2) IN h \o h
    ELSE s \o Times(s, n - 1)

(* a * n of Python: a number is multiplied, a str is repeated. *)
PyMul(a, n) ==
    IF IsNumber(a) THEN [a EXCEPT !.v = @ * n] ELSE PyStr(Times(a.v, n))

handle_pexpire(s, c, key, mttl) ==
    IF key \notin DOMAIN Table(s, c) THEN Ret(s, PyInt(0))
    ELSE LET when == PyAdd(PyFloat(now), PyMul(mttl, 1000))
         IN IF when.t = "raise" THEN Ret(s, when)
            ELSE Ret(St(s.tables, Put(s.timeouts, TKey(cdb[c], key), when)),
                     PyInt(1))

handle_pexpireat(s, c, key, mwhen) ==
    IF key \notin DOMAIN Table(s, c) THEN Ret(s, PyInt(0))
    ELSE Ret(St(s.tables,
                Put(s.timeouts, TKey(cdb[c], key), PyMul(mwhen, 1000))),
             PyInt(1))

handle_move(s, c, key, db) ==
    IF key \notin DOMAIN Table(s, c) THEN Ret(s, PyInt(0))
    ELSE LET s1 == StOf(handle_persist(s, c, key))
             tb == IF db \in DOMAIN s1.tables THEN s1.tables
                   ELSE Put(s1.tables, db, MetaGet(db, EmptyDict))
             s2 == St(tb, s1.timeouts)
         IN IF key \in DOMAIN tb[db] THEN Ret(s2, PyInt(0))
            ELSE LET tb1 == [tb EXCEPT ![db] = Put(tb[db], key, Table(s2, c)[key])]
                     tb2 == [tb1 EXCEPT ![DbInt(cdb[c])] =
                                            Drop(tb1[DbInt(cdb[c])], key)]
                 IN Ret(St(tb2, s2.timeouts), PyInt(1))

handle_rename(s, c, key, newkey) ==
    IF key \notin DOMAIN Table(s, c) THEN Ret(s, Raise("KeyError"))
    ELSE LET t1 == Put(Table(s, c), newkey, Table(s, c)[key])
             k == TKey(cdb[c], key)
             to == IF k \in DOMAIN s.timeouts
                   THEN Drop(Put(s.timeouts, TKey(cdb[c], key), s.timeouts[k]), k)
                   ELSE s.timeouts
         IN Ret(SetTable(St(s.tables, to), c, Drop(t1, key)), PyBool(TRUE))

handle_renamenx(s, c, key, newkey) ==
    IF newkey \notin DOMAIN Table(s, c)
    THEN LET r == handle_rename(s, c, key, newkey)
         IN IF r.ret.t = "raise" THEN r ELSE Ret(StOf(r), PyInt(1))
    ELSE Ret(s, PyInt(0))

handle_ttl(s, c, key) ==
    IF key \notin DOMAIN Table(s, c) THEN Ret(s, PyInt(0 - 2))
    ELSE LET k == TKey(cdb[c], key)
         IN IF k \notin DOMAIN s.timeouts THEN Ret(s, PyInt(0 - 1))
            ELSE Ret(s, int(s.timeouts[k]))

handle_type(s, c, key) ==
    IF key \notin DOMAIN Table(s, c) THEN Ret(s, RedisMessage("none"))
    ELSE LET data == Table(s, c)[key]
         IN Ret(s, CASE data.t = "deque" -> RedisMessage("list")
                     [] data.t = "set" -> RedisMessage("set")
                     [] data.t = "dict" -> RedisMessage("hash")
                     [] data.t = "str" -> RedisMessage("string")
                     [] OTHER -> RedisError("unknown data type"))

-----------------------------------------------------------------------------
(* Strings *)

handle_get(s, c, key) ==
    LET s1 == check_ttl(s, c, key)
        tbl == Table(s1, c)
    IN IF key \notin DOMAIN tbl THEN Ret(s1, EMPTY_SCALAR)
       ELSE IF tbl[key].t = "deque" THEN Ret(s1, BAD_VALUE)
       ELSE Ret(s1, PyStr(str(tbl[key])))

handle_getset(s, c, key, data) ==
    LET s1 == StOf(handle_persist(s, c, key))
        tbl == Table(s1, c)
    IN IF key \in DOMAIN tbl /\ tbl[key].t = "deque" THEN Ret(s1, BAD_VALUE)
       ELSE Ret(SetTable(s1, c, Put(tbl, key, data)),
                IF key \in DOMAIN tbl THEN PyStr(str(tbl[key]))
                ELSE EMPTY_SCALAR)

handle_incrby(s, c, key, by) ==
    LET s1 == check_ttl(s, c, key)
        tbl == Table(s1, c)
        cur == IF key \in DOMAIN tbl THEN int(tbl[key]) ELSE Raise("KeyError")
        inc == int(by)
        new == IF cur.t = "raise" \/ inc.t = "raise" THEN PyInt(1)
               ELSE PyInt(cur.v + inc.v)
    IN Ret(SetTable(s1, c, Put(tbl, key, new)), new)

handle_incr(s, c, key) ==
    handle_incrby(check_ttl(s, c, key), c, key, PyInt(1))

(* A call of a bound method that takes `takes` arguments after self with  *)
(* `given` arguments: TypeError unless they agree.                        *)
BoundCall(takes, given, result) ==
    IF takes = given THEN result ELSE Raise("TypeError")

(* -by: defined on a number, TypeError on a str. *)
Neg(o) == IF o.t = "int" THEN PyInt(0 - o.v) ELSE Raise("TypeError")

(* self.handle_incrby(self, client, key, -by): the operand is negated     *)
(* first, then the method of three arguments is called with four.         *)
handle_decrby(s, c, key, by) ==
    LET s1 == check_ttl(s, c, key)
        n == Neg(by)
    IN IF n.t = "raise" THEN Ret(s1, n)
       ELSE LET r == BoundCall(3, 4, handle_incrby(s1, c, key, n))
            IN IF "t" \in DOMAIN r THEN Ret(s1, r) ELSE r

(* self.handle_decrby(self, client, key, 1): four arguments for three. *)
handle_decr(s, c, key) ==
    LET s1 == check_ttl(s, c, key)
        r == BoundCall(3, 4, handle_decrby(s1, c, key, PyInt(1)))
    IN IF "t" \in DOMAIN r THEN Ret(s1, r) ELSE r

(* handle_set without its handle_persist call. *)
handle_set_keeps_ttl(s, c, key, data) ==
    Ret(SetTable(s, c, Put(Table(s, c), key, data)), PyBool(TRUE))

handle_set(s, c, key, data) ==
    LET s1 == StOf(handle_persist(s, c, key))
    IN Ret(SetTable(s1, c, Put(Table(s1, c), key, data)), PyBool(TRUE))

handle_setnx(s, c, key, data) ==
    IF key \in DOMAIN Table(s, c) THEN Ret(s, PyInt(0))
    ELSE Ret(SetTable(s, c, Put(Table(s, c), key, data)), PyInt(1))

-----------------------------------------------------------------------------
(* Lists *)

handle_lpush(s, c, key, data) ==
    LET s1 == check_ttl(s, c, key)
        tbl == Table(s1, c)
    IN IF key \notin DOMAIN tbl
       THEN Ret(SetTable(s1, c, Put(tbl, key, PyDeque(<<data>>))), PyBool(TRUE))
       ELSE IF tbl[key].t # "deque" THEN Ret(s1, BAD_VALUE)
       ELSE Ret(SetTable(s1, c, Put(tbl, key, PyDeque(<<data>> \o tbl[key].v))),
                PyBool(TRUE))

handle_rpush(s, c, key, data) ==
    LET s1 == check_ttl(s, c, key)
        tbl == Table(s1, c)
    IN IF key \notin DOMAIN tbl
       THEN Ret(SetTable(s1, c, Put(tbl, key, PyDeque(<<data>>))), PyBool(TRUE))
       ELSE IF tbl[key].t # "deque" THEN Ret(s1, BAD_VALUE)
       ELSE Ret(SetTable(s1, c, Put(tbl, key, PyDeque(Append(tbl[key].v, data)))),
                PyBool(TRUE))

handle_llen(s, c, key) ==
    LET s1 == check_ttl(s, c, key)
        tbl == Table(s1, c)
    IN IF key \notin DOMAIN tbl THEN Ret(s1, PyInt(0))
       ELSE IF tbl[key].t # "deque" THEN Ret(s1, BAD_VALUE)
       ELSE Ret(s1, PyInt(Len(tbl[key].v)))

handle_lpop(s, c, key) ==
    LET s1 == check_ttl(s, c, key)
        tbl == Table(s1, c)
    IN IF key \notin DOMAIN tbl THEN Ret(s1, EMPTY_SCALAR)
       ELSE IF tbl[key].t # "deque" THEN Ret(s1, BAD_VALUE)
       ELSE IF Len(tbl[key].v) > 0
       THEN Ret(SetTable(s1, c, Put(tbl, key, PyDeque(Tail(tbl[key].v)))),
                PyStr(Head(tbl[key].v)))
       ELSE Ret(s1, EMPTY_SCALAR)

(* l[start:stop] of Python on a list: an index below 0 counts from the    *)
(* end, an index out of range is clipped.                                 *)
Slice(l, start, stop) ==
    LET n == Len(l)
        lo == IF start < 0 THEN (IF start + n < 0 THEN 0 ELSE start + n)
              ELSE IF start > n THEN n ELSE start
        hi == IF stop < 0 THEN (IF stop + n < 0 THEN 0 ELSE stop + n)
              ELSE IF stop > n THEN n ELSE stop
    IN IF lo >= hi THEN <<>> ELSE SubSeq(l, lo + 1, hi)

handle_lrange(s, c, key, start, stop) ==
    LET s1 == check_ttl(s, c, key)
        tbl == Table(s1, c)
        a == int(start)
        b == int(stop)
    IN IF a.t = "raise" THEN Ret(s1, a)
       ELSE IF b.t = "raise" THEN Ret(s1, b)
       ELSE IF key \notin DOMAIN tbl THEN Ret(s1, EMPTY_LIST)
       ELSE IF tbl[key].t # "deque" THEN Ret(s1, BAD_VALUE)
       ELSE LET l == tbl[key].v
                to == IF a.v = 0 /\ b.v = 0 - 1 THEN Len(l) ELSE b.v
                cut == Slice(l, a.v, to)
            IN Ret(s1, PyList([i \in 1..Len(cut) |-> PyStr(cut[i])]))

(* handle_rpop taking the element from the head. *)
handle_rpop_head(s, c, key) == handle_lpop(s, c, key)

handle_rpop(s, c, key) ==
    LET s1 == check_ttl(s, c, key)
        tbl == Table(s1, c)
    IN IF key \notin DOMAIN tbl THEN Ret(s1, EMPTY_SCALAR)
       ELSE IF tbl[key].t # "deque" THEN Ret(s1, BAD_VALUE)
       ELSE IF Len(tbl[key].v) > 0
       THEN Ret(SetTable(s1, c,
                         Put(tbl, key,
                             PyDeque(SubSeq(tbl[key].v, 1, Len(tbl[key].v) - 1)))),
                PyStr(tbl[key].v[Len(tbl[key].v)]))
       ELSE Ret(s1, EMPTY_SCALAR)

-----------------------------------------------------------------------------
(* Hashes *)

(* On a value that is no dict, `field not in value` or the item           *)
(* assignment value[field] = ... raises TypeError.                        *)
handle_hset(s, c, key, field, value) ==
    LET s1 == check_ttl(s, c, key)
        tbl == IF key \in DOMAIN Table(s1, c) THEN Table(s1, c)
               ELSE Put(Table(s1, c), key, PyDict(EmptyDict))
        s2 == SetTable(s1, c, tbl)
    IN IF tbl[key].t # "dict" THEN Ret(s2, Raise("TypeError"))
       ELSE Ret(SetTable(s2, c, Put(tbl, key, PyDict(Put(tbl[key].v, field, value)))),
                IF field \notin DOMAIN tbl[key].v THEN PyInt(1) ELSE PyInt(0))

-----------------------------------------------------------------------------
(* Server *)

handle_flushdb(s, c) == Ret(SetTable(s, c, EmptyDict), PyBool(TRUE))

handle_flushall(s, c) ==
    Ret(St([d \in DOMAIN s.tables |-> EmptyDict], s.timeouts), PyBool(TRUE))

(* select(client, db) creates the database on first use; the action that  *)
(* calls it sets client.db (and with it client.table).                    *)
(* select without its test `db not in self.tables`. *)
select_fresh(s, db) ==
    St(Put(s.tables, DbInt(db), MetaGet(DbInt(db), EmptyDict)), s.timeouts)

select(s, db) ==
    IF DbInt(db) \in DOMAIN s.tables THEN s
    ELSE St(Put(s.tables, DbInt(db), MetaGet(DbInt(db), EmptyDict)), s.timeouts)

handle_select(s, c, db) ==
    LET n == int(db)
    IN IF n.t = "raise" THEN Ret(s, n)
       ELSE [tables |-> select(s, n.v).tables, timeouts |-> s.timeouts,
             ret |-> PyBool(TRUE), db |-> n.v]

-----------------------------------------------------------------------------
(* Replies *)

nl == "\r\n"

Bulk(b) == "$" \o ToStr(Len(b)) \o nl \o b \o nl

RECURSIVE DumpItems(_, _)
DumpItems(l, i) ==
    IF i > Len(l) THEN "" ELSE Bulk(str(l[i])) \o DumpItems(l, i + 1)

(* dump(client, o): the bytes written to client.wfile for the result o. *)
dump(o) ==
    CASE o.t = "bool" -> IF o.v THEN "+OK" \o nl ELSE ""
      [] o = EMPTY_SCALAR -> "$-1" \o nl
      [] o = EMPTY_LIST -> "*-1" \o nl
      [] o.t = "int" -> ":" \o ToStr(o.v) \o nl
      [] o.t = "str" -> Bulk(o.v)
      [] o.t = "list" -> "*" \o ToStr(Len(o.v)) \o nl \o DumpItems(o.v, 1)
      [] o.t = "RedisMessage" -> "+" \o o.v \o nl
      [] o.t = "RedisError" -> "-ERR " \o o.v \o nl
      [] OTHER -> "return type not yet implemented" \o nl

-----------------------------------------------------------------------------
(* The select loop: run() and handle() *)

(* What is recorded of a request: who sent it, the command and its        *)
(* arguments, the bytes replied, the exception raised (if any), and       *)
(* whether its first argument named a key with an expiration entry when   *)
(* the request arrived, and whether it repeats the request served just    *)
(* before it (same connection, command and arguments, no exception).      *)
Request(c, cmd, args, reply, exc) ==
    [conn |-> c, cmd |-> cmd, args |-> args, reply |-> reply, exc |-> exc,
     volatile |-> /\ c \in DOMAIN cdb
                  /\ Len(args) > 0
                  /\ TKey(cdb[c], args[1]) \in DOMAIN timeouts,
     again |-> /\ last.conn = c
               /\ last.cmd = cmd
               /\ last.args = args
               /\ last.exc = ""]

NoRequest ==
    [conn |-> 0, cmd |-> "", args |-> <<>>, reply |-> "", exc |-> "",
     volatile |-> FALSE, again |-> FALSE]

(* A thread that has not been started. *)
NoThread == [pc |-> "new", key |-> "", by |-> "", tmp |-> 0, done |-> <<>>]

(* The server as __init__ leaves it, with no snapshot on disk. *)
Constructed ==
    /\ halt = TRUE
    /\ pc = "init"
    /\ clients = {}
    /\ client = 0
    /\ cdb = EmptyDict
    /\ tables = EmptyDict
    /\ timeouts = EmptyDict
    /\ now = 0
    /\ last = NoRequest
    /\ threads = [t \in 1..MaxThreads |-> NoThread]
    /\ channels = EmptyDict
    /\ wfile = EmptyDict
    /\ wire = EmptyDict
    /\ asked = {}
    /\ disk = EmptyDict
    /\ rfile = EmptyDict

Init == Constructed /\ nLeft = MaxCmds

(* run() up to its loop. *)
Start ==
    /\ pc = "init"
    /\ halt' = FALSE
    /\ pc' = "running"
    /\ UNCHANGED <<clients, client, cdb, tables, timeouts, now, last, nLeft>>
    /\ UNCHANGED <<threads, rfile>>
    /\ UNCHANGED <<channels, wfile, wire, asked, disk>>

(* The model runs while it has requests left to serve. *)
Live == nLeft > 0

(* The clock advances. *)
Tick ==
    /\ Live
    /\ now < MaxTime
    /\ now' = now + 1
    /\ UNCHANGED <<halt, pc, clients, client, cdb, tables, timeouts, last, nLeft>>
    /\ UNCHANGED <<threads, rfile>>
    /\ UNCHANGED <<channels, wfile, wire, asked, disk>>

Looping == pc = "running" /\ ~halt

(* The server socket is readable: accept, register, select(client, 0). *)
AcceptUpTo(n) ==
    /\ Live
    /\ Looping
    /\ Cardinality(DOMAIN cdb) < n
    /\ LET c == Cardinality(DOMAIN cdb) + 1
           s == select(St(tables, timeouts), 0)
       IN /\ clients' = clients \cup {c}
          /\ client' = c
          /\ cdb' = Put(cdb, c, 0)
          /\ tables' = s.tables
          /\ wfile' = Put(wfile, c, <<>>)
          /\ wire' = Put(wire, c, <<>>)
    /\ UNCHANGED <<halt, pc, timeouts, now, last, nLeft, threads, rfile>>
    /\ UNCHANGED <<channels, asked, disk>>

Accept == AcceptUpTo(MaxConns)

(* The entries handle() samples: a quarter of the expiration table. *)
SampleSets(to) ==
    {S \in SUBSET (DOMAIN to) : Cardinality(S) = Cardinality(DOMAIN to) \div 4}

(* check_ttl on every sampled entry; the entries are distinct, so the     *)
(* order in which sample() yields them does not change the outcome.       *)
RECURSIVE Sweep(_, _, _)
Sweep(s, c, S) ==
    IF S = {} THEN s
    ELSE LET e == CHOOSE x \in S : TRUE
         IN Sweep(check_ttl(s, c, e), c, S \ {e})

(* handle_quit(q): shutdown() raises on a socket that is already closed.  *)
(* A connection leaves self.clients exactly when its socket is closed.    *)
handle_quit(cl, q) ==
    IF q \in cl THEN [clients |-> cl \ {q}, ret |-> PyBool(FALSE)]
    ELSE [clients |-> cl, ret |-> Raise("socket.error")]

(* The states handle() may leave after its sweep, one per sample. *)
Swept(c) == {Sweep(St(tables, timeouts), c, S) : S \in SampleSets(timeouts)}

(* What connection c has sent and handle() has not read: `socket` is     *)
(* what waits in the socket, which select() sees, `buffer` what a         *)
(* readline() of client.rfile has received beyond the request it was      *)
(* reading and keeps for the next read.                                   *)
Unread(c) ==
    IF c \in DOMAIN rfile THEN rfile[c] ELSE [socket |-> <<>>, buffer |-> <<>>]

(* The socket of c is in the list `readable` of a pass of the loop of    *)
(* run(): of a pass that starts while the server is not halted, or of    *)
(* the pass in which SHUTDOWN has just been handled for another socket:  *)
(* `for sock in readable` goes on to the sockets after it, and halt is   *)
(* looked at only when the list is done.                                 *)
InPass(c) ==
    \/ Looping
    \/ /\ pc = "running"
       /\ halt
       /\ last.cmd = "SHUTDOWN"
       /\ last.conn # c

(* One pass of the loop body of run() for a readable client socket c     *)
(* carrying a request: handle() sweeps, reads the request, calls the      *)
(* handler, whose result is r, and dumps it; an exception is caught by    *)
(* run(), which then quits `client`, the connection accepted last.        *)
(* The request is the next one unread; with nothing unread, it arrives   *)
(* alone and is read at once. select() reports c only when bytes wait in *)
(* the socket; readline() takes the request from the buffer of rfile if  *)
(* it holds one, and otherwise receives all that waits in the socket.    *)
Serve(c, cmd, args, r) ==
    /\ InPass(c)
    /\ c \in clients
    /\ Live
    /\ LET cl == IF "clients" \in DOMAIN r THEN r.clients ELSE clients
           wf == IF "wfile" \in DOMAIN r THEN r.wfile ELSE wfile
           q == handle_quit(cl, client)
       IN /\ tables' = r.tables
          /\ timeouts' = r.timeouts
          /\ cdb' = IF "db" \in DOMAIN r THEN [cdb EXCEPT ![c] = r.db] ELSE cdb
          /\ channels' = IF "channels" \in DOMAIN r THEN r.channels ELSE channels
          /\ halt' = IF "halt" \in DOMAIN r THEN r.halt ELSE halt
          /\ disk' = IF "disk" \in DOMAIN r THEN r.disk ELSE disk
          /\ IF r.ret.t = "raise"
             THEN /\ last' = Request(c, cmd, args, "", r.ret.v)
                  /\ clients' = q.clients
                  /\ pc' = IF q.ret.t = "raise" THEN "crashed" ELSE pc
                  /\ wfile' = wf
                  /\ wire' = wire
             ELSE /\ last' = Request(c, cmd, args, dump(r.ret), "")
                  /\ clients' = cl
                  /\ pc' = pc
                  /\ wfile' = [wf EXCEPT ![c] = <<>>]
                  /\ wire' = [wire EXCEPT ![c] = @ \o wf[c]]
    /\ asked' = CASE cmd = "SUBSCRIBE" -> asked \cup {<<c, args[1]>>}
                  [] cmd = "UNSUBSCRIBE" -> asked \ {<<c, args[1]>>}
                  [] OTHER -> asked
    /\ LET u == Unread(c)
       IN IF u.buffer = <<>> /\ u.socket = <<>>
          THEN UNCHANGED rfile
          ELSE /\ u.socket # <<>>
               /\ IF u.buffer # <<>>
                  THEN /\ Head(u.buffer) = <<cmd, args>>
                       /\ rfile' = Put(rfile, c, [u EXCEPT !.buffer = Tail(@)])
                  ELSE /\ Head(u.socket) = <<cmd, args>>
                       /\ rfile' = Put(rfile, c, [socket |-> <<>>,
                                                  buffer |-> Tail(u.socket)])
    /\ nLeft' = nLeft - 1
    /\ UNCHANGED <<client, now, threads>>

Del(c, k) == \E s \in Swept(c) : Serve(c, "DEL", <<k>>, handle_del(s, c, k))

(* DEL with several keys: handle() calls handle_del(client, *args), a     *)
(* method of one argument after client.                                   *)
DelMany(c, ks) ==
    \E s \in Swept(c) :
        LET r == BoundCall(1, Len(ks), handle_del(s, c, ks[1]))
        IN Serve(c, "DEL", ks, IF "t" \in DOMAIN r THEN Ret(s, r) ELSE r)

Exists(c, k) == \E s \in Swept(c) : Serve(c, "EXISTS", <<k>>, handle_exists(s, c, k))

Expire(c, k, n) ==
    \E s \in Swept(c) : Serve(c, "EXPIRE", <<k, n>>, handle_expire(s, c, k, PyStr(n)))

ExpireAt(c, k, w) ==
    \E s \in Swept(c) : Serve(c, "EXPIREAT", <<k, w>>, handle_expireat(s, c, k, PyStr(w)))

PExpire(c, k, n) ==
    \E s \in Swept(c) : Serve(c, "PEXPIRE", <<k, n>>, handle_pexpire(s, c, k, PyStr(n)))

PExpireAt(c, k, w) ==
    \E s \in Swept(c) :
        Serve(c, "PEXPIREAT", <<k, w>>, handle_pexpireat(s, c, k, PyStr(w)))

Move(c, k, d) ==
    \E s \in Swept(c) : Serve(c, "MOVE", <<k, d>>, handle_move(s, c, k, PyStr(d)))

Persist(c, k) == \E s \in Swept(c) : Serve(c, "PERSIST", <<k>>, handle_persist(s, c, k))

Rename(c, k, k2) ==
    \E s \in Swept(c) : Serve(c, "RENAME", <<k, k2>>, handle_rename(s, c, k, k2))

RenameNx(c, k, k2) ==
    \E s \in Swept(c) :
        Serve(c, "RENAMENX", <<k, k2>>, handle_renamenx(s, c, k, k2))

Ttl(c, k) == \E s \in Swept(c) : Serve(c, "TTL", <<k>>, handle_ttl(s, c, k))

Type(c, k) == \E s \in Swept(c) : Serve(c, "TYPE", <<k>>, handle_type(s, c, k))

Get(c, k) == \E s \in Swept(c) : Serve(c, "GET", <<k>>, handle_get(s, c, k))

GetSet(c, k, d) ==
    \E s \in Swept(c) : Serve(c, "GETSET", <<k, d>>, handle_getset(s, c, k, PyStr(d)))

Set(c, k, d) ==
    \E s \in Swept(c) : Serve(c, "SET", <<k, d>>, handle_set(s, c, k, PyStr(d)))

SetNx(c, k, d) ==
    \E s \in Swept(c) : Serve(c, "SETNX", <<k, d>>, handle_setnx(s, c, k, PyStr(d)))

(* APPEND: getattr(self, 'handle_append') finds no such method. *)
AppendCmd(c, k, d) ==
    \E s \in Swept(c) : Serve(c, "APPEND", <<k, d>>, Ret(s, Raise("AttributeError")))

(* The counters of the model stay within MaxInt. *)
Small(r) == r.ret.t = "int" => r.ret.v <= MaxInt

Incr(c, k) ==
    /\ c \in clients
    /\ Small(handle_incr(St(tables, timeouts), c, k))
    /\ \E s \in Swept(c) : Serve(c, "INCR", <<k>>, handle_incr(s, c, k))

IncrBy(c, k, n) ==
    /\ c \in clients
    /\ Small(handle_incrby(St(tables, timeouts), c, k, PyStr(n)))
    /\ \E s \in Swept(c) : Serve(c, "INCRBY", <<k, n>>, handle_incrby(s, c, k, PyStr(n)))

Decr(c, k) == \E s \in Swept(c) : Serve(c, "DECR", <<k>>, handle_decr(s, c, k))

DecrBy(c, k, n) ==
    \E s \in Swept(c) :
        Serve(c, "DECRBY", <<k, n>>, handle_decrby(s, c, k, PyStr(n)))

LPush(c, k, d) ==
    \E s \in Swept(c) : Serve(c, "LPUSH", <<k, d>>, handle_lpush(s, c, k, d))

RPush(c, k, d) ==
    \E s \in Swept(c) : Serve(c, "RPUSH", <<k, d>>, handle_rpush(s, c, k, d))

LLen(c, k) == \E s \in Swept(c) : Serve(c, "LLEN", <<k>>, handle_llen(s, c, k))

LPop(c, k) == \E s \in Swept(c) : Serve(c, "LPOP", <<k>>, handle_lpop(s, c, k))

RPop(c, k) == \E s \in Swept(c) : Serve(c, "RPOP", <<k>>, handle_rpop(s, c, k))

LRange(c, k, a, b) ==
    \E s \in Swept(c) :
        Serve(c, "LRANGE", <<k, a, b>>, handle_lrange(s, c, k, PyStr(a), PyStr(b)))

HSet(c, k, f, d) ==
    \E s \in Swept(c) : Serve(c, "HSET", <<k, f, d>>, handle_hset(s, c, k, f, d))

FlushDb(c) == \E s \in Swept(c) : Serve(c, "FLUSHDB", <<>>, handle_flushdb(s, c))

FlushAll(c) == \E s \in Swept(c) : Serve(c, "FLUSHALL", <<>>, handle_flushall(s, c))

Select(c, d) ==
    \E s \in Swept(c) : Serve(c, "SELECT", <<d>>, handle_select(s, c, PyStr(d)))

(* getattr(self, 'handle_' + command) finds no handler: AttributeError.   *)
Unknown(c) ==
    \E s \in Swept(c) : Serve(c, "NOSUCH", <<>>, Ret(s, Raise("AttributeError")))

(* A handler called with the wrong number of arguments: TypeError,        *)
(* raised before its body runs.                                          *)
BadArity(c) == \E s \in Swept(c) : Serve(c, "GET", <<>>, Ret(s, Raise("TypeError")))

(* readline() returns '': the client has gone. *)
Disconnect(c) ==
    /\ Live
    /\ Looping
    /\ c \in clients
    /\ \E S \in SampleSets(timeouts) :
         LET s == Sweep(St(tables, timeouts), c, S)
         IN tables' = s.tables /\ timeouts' = s.timeouts
    /\ clients' = clients \ {c}
    /\ UNCHANGED <<halt, pc, client, cdb, now, last, nLeft, threads, rfile>>
    /\ UNCHANGED <<channels, wfile, wire, asked, disk>>

Next ==
    \/ Start
    \/ Tick
    \/ Accept
    \/ \E c \in clients, k \in Keys : Del(c, k)
    \/ \E c \in clients, k \in Keys : Exists(c, k)
    \/ \E c \in clients, k \in Keys, n \in Whens : Expire(c, k, n)
    \/ \E c \in clients, k \in Keys, w \in Whens : ExpireAt(c, k, w)
    \/ \E c \in clients, k \in Keys, d \in DbArgs : Move(c, k, d)
    \/ \E c \in clients, k \in Keys : Persist(c, k)
    \/ \E c \in clients, k \in Keys, k2 \in Keys : Rename(c, k, k2)
    \/ \E c \in clients, k \in Keys : Ttl(c, k)
    \/ \E c \in clients, k \in Keys : Type(c, k)
    \/ \E c \in clients, k \in Keys : Get(c, k)
    \/ \E c \in clients, k \in Keys, d \in Data : GetSet(c, k, d)
    \/ \E c \in clients, k \in Keys, d \in Data : Set(c, k, d)
    \/ \E c \in clients, k \in Keys, d \in Data : SetNx(c, k, d)
    \/ \E c \in clients, k \in Keys : Incr(c, k)
    \/ \E c \in clients, k \in Keys, n \in Data : IncrBy(c, k, n)
    \/ \E c \in clients, k \in Keys, d \in Elems : LPush(c, k, d)
    \/ \E c \in clients, k \in Keys, d \in Elems : RPush(c, k, d)
    \/ \E c \in clients, k \in Keys, f \in Fields, d \in Elems : HSet(c, k, f, d)
    \/ \E c \in clients : FlushDb(c)
    \/ \E c \in clients : FlushAll(c)
    \/ \E c \in clients, d \in DbArgs : Select(c, d)
    \/ \E c \in clients : Unknown(c)
    \/ \E c \in clients : BadArity(c)
    \/ \E c \in clients : Disconnect(c)

Spec == Init /\ [][Next]_vars

-----------------------------------------------------------------------------
(* Focused specifications: the same server and the same actions, with     *)
(* fewer kinds of request and a longer run.                               *)

MaxMoveCmds == 5

InitMove == Constructed /\ nLeft = MaxMoveCmds

NextMove ==
    \/ Start
    \/ Accept
    \/ \E c \in clients, k \in Keys, w \in Whens : ExpireAt(c, k, w)
    \/ \E c \in clients, k \in Keys, d \in DbArgs : Move(c, k, d)
    \/ \E c \in clients, k \in Keys : Ttl(c, k)
    \/ \E c \in clients, k \in Keys, d \in Data : Set(c, k, d)

SpecMove == InitMove /\ [][NextMove]_vars

NextWrite ==
    \/ Start
    \/ Tick
    \/ Accept
    \/ \E c \in clients, k \in Keys, w \in Whens : ExpireAt(c, k, w)
    \/ \E c \in clients, k \in Keys : Ttl(c, k)
    \/ \E c \in clients, k \in Keys, d \in Elems : GetSet(c, k, d)
    \/ \E c \in clients, k \in Keys, d \in Data : Set(c, k, d)
    \/ \E c \in clients, k \in Keys, d \in Elems : LPush(c, k, d)
    \/ \E c \in clients, k \in Keys, f \in Fields, d \in Elems : HSet(c, k, f, d)
    \/ \E c \in clients : FlushDb(c)
    \/ \E c \in clients, d \in DbArgs : Select(c, d)

SpecWrite == Init /\ [][NextWrite]_vars

-----------------------------------------------------------------------------
(* Pub/sub: handle_subscribe, handle_unsubscribe, handle_publish.  The    *)
(* handlers work on ps = [channels, wfile] and return it with ret.        *)

Channels == {"ch"}
Messages == {"m"}

(* channels.trim(): a Python str has no method trim. *)
trim(o) == Raise("AttributeError")

(* channels.strip().split(' ') of a name without blanks. *)
strip(o) == PyList(<<o.v>>)

(* The loop of handle_subscribe over the names. *)
RECURSIVE SubscribeAll(_, _, _)
SubscribeAll(chs, c, names) ==
    IF names = <<>> THEN chs
    ELSE LET n == Head(names)
             cur == IF n \in DOMAIN chs THEN chs[n] ELSE <<>>
         IN SubscribeAll(Put(chs, n, Append(cur, c)), c, Tail(names))

(* handle_subscribe with strip() in the place of trim(). *)
handle_subscribe_strip(ps, c, chans) ==
    LET names == strip(chans)
    IN IF names.t = "raise" THEN [ps EXCEPT !.ret = names]
       ELSE [ps EXCEPT !.channels = SubscribeAll(ps.channels, c, names.v),
                       !.ret = PyBool(TRUE)]

handle_subscribe(ps, c, chans) ==
    LET names == trim(chans)
    IN IF names.t = "raise" THEN [ps EXCEPT !.ret = names]
       ELSE [ps EXCEPT !.channels = SubscribeAll(ps.channels, c, names.v),
                       !.ret = PyBool(TRUE)]

(* list.remove(x): the list without the first x. *)
RECURSIVE Remove(_, _)
Remove(l, x) ==
    IF l = <<>> THEN <<>>
    ELSE IF Head(l) = x THEN Tail(l)
    ELSE <<Head(l)>> \o Remove(Tail(l), x)

(* The loop of handle_unsubscribe over the names. *)
RECURSIVE UnsubscribeAll(_, _, _)
UnsubscribeAll(ps, c, names) ==
    IF names = <<>> THEN [ps EXCEPT !.ret = PyBool(TRUE)]
    ELSE LET n == Head(names)
         IN IF n \notin DOMAIN ps.channels
               \/ c \notin {ps.channels[n][i] : i \in 1..Len(ps.channels[n])}
            THEN [ps EXCEPT !.ret = PyBool(FALSE)]
            ELSE UnsubscribeAll(
                     [ps EXCEPT !.channels[n] = Remove(@, c)], c, Tail(names))

handle_unsubscribe(ps, c, chans) ==
    LET names == trim(chans)
    IN IF names.t = "raise" THEN [ps EXCEPT !.ret = names]
       ELSE UnsubscribeAll(ps, c, names.v)

(* re.match(p, channel) for a pattern that is a plain name. *)
Matches(p, channel) ==
    Len(p) <= Len(channel) /\ SubSeq(channel, 1, Len(p)) = p

(* What handle_publish writes to a subscriber. *)
Envelope(channel, message) ==
    "*3" \o nl \o Bulk("message") \o Bulk(channel) \o Bulk(message)

(* The inner loop of handle_publish: one envelope per subscriber. *)
RECURSIVE Deliver(_, _, _)
Deliver(wf, subs, env) ==
    IF subs = <<>> THEN wf
    ELSE Deliver([wf EXCEPT ![Head(subs)] = Append(@, env)], Tail(subs), env)

(* The outer loop of handle_publish: once per key of self.channels that   *)
(* matches the channel.                                                   *)
RECURSIVE DeliverTimes(_, _, _, _)
DeliverTimes(wf, subs, env, n) ==
    IF n = 0 THEN wf
    ELSE DeliverTimes(Deliver(wf, subs, env), subs, env, n - 1)

handle_publish(ps, c, channel, message) ==
    LET hits == {p \in DOMAIN ps.channels : Matches(p, channel)}
    IN IF hits = {} THEN [ps EXCEPT !.ret = PyBool(TRUE)]
       ELSE IF channel \notin DOMAIN ps.channels
       THEN [ps EXCEPT !.ret = Raise("KeyError")]
       ELSE [ps EXCEPT !.wfile = DeliverTimes(ps.wfile, ps.channels[channel],
                                              Envelope(channel, message),
                                              Cardinality(hits)),
                       !.ret = PyBool(TRUE)]

(* The pub/sub state a handler starts from. *)
PubSub == [channels |-> channels, wfile |-> wfile, ret |-> PyNone]

(* The result of a pub/sub handler h after the sweep left s. *)
WithPubSub(s, h) ==
    [tables |-> s.tables, timeouts |-> s.timeouts, ret |-> h.ret,
     channels |-> h.channels, wfile |-> h.wfile]

Subscribe(c, ch) ==
    \E s \in Swept(c) :
        Serve(c, "SUBSCRIBE", <<ch>>,
              WithPubSub(s, handle_subscribe(PubSub, c, PyStr(ch))))

Unsubscribe(c, ch) ==
    \E s \in Swept(c) :
        Serve(c, "UNSUBSCRIBE", <<ch>>,
              WithPubSub(s, handle_unsubscribe(PubSub, c, PyStr(ch))))

Publish(c, ch, m) ==
    \E s \in Swept(c) :
        Serve(c, "PUBLISH", <<ch, m>>,
              WithPubSub(s, handle_publish(PubSub, c, ch, m)))

(* QUIT: handle_quit on the connection that asked. *)
Quit(c) ==
    \E s \in Swept(c) :
        LET q == handle_quit(clients, c)
        IN Serve(c, "QUIT", <<>>,
                 [tables |-> s.tables, timeouts |-> s.timeouts, ret |-> q.ret,
                  clients |-> q.clients])

MaxPubSubConns == 3
MaxPubSubCmds == 3

InitPubSub == Constructed /\ nLeft = MaxPubSubCmds

NextPubSub ==
    \/ Start
    \/ AcceptUpTo(MaxPubSubConns)
    \/ \E c \in clients, ch \in Channels : Subscribe(c, ch)
    \/ \E c \in clients, ch \in Channels : Unsubscribe(c, ch)
    \/ \E c \in clients, ch \in Channels, m \in Messages : Publish(c, ch, m)
    \/ \E c \in clients : Quit(c)
    \/ \E c \in clients : Disconnect(c)

SpecPubSub == InitPubSub /\ [][NextPubSub]_vars

-----------------------------------------------------------------------------
(* Snapshots and the life of the server: save, stop, SHUTDOWN, the end of *)
(* run(), and a restart of the process.                                   *)

(* The name under which save() stores self.timeouts. *)
TimeoutsName == PyStr("timeouts")

(* save(): self.meta['timeouts'] = self.timeouts, then self.meta[db] =    *)
(* self.tables[db] for every db, then commit().  dk is the store before.  *)
save(dk, s) ==
    [n \in DOMAIN dk \cup {TimeoutsName} \cup DOMAIN s.tables |->
        IF n \in DOMAIN s.tables THEN s.tables[n]
        ELSE IF n = TimeoutsName THEN s.timeouts
        ELSE dk[n]]

handle_save(s, c) ==
    [tables |-> s.tables, timeouts |-> s.timeouts, ret |-> PyBool(TRUE),
     disk |-> save(disk, s)]

(* handle_shutdown: halt, save, handle_quit on the connection that asked. *)
handle_shutdown(s, c) ==
    LET q == handle_quit(clients, c)
    IN [tables |-> s.tables, timeouts |-> s.timeouts, ret |-> q.ret,
        disk |-> save(disk, s), halt |-> TRUE, clients |-> q.clients]

Save(c) == \E s \in Swept(c) : Serve(c, "SAVE", <<>>, handle_save(s, c))

Shutdown(c) ==
    \E s \in Swept(c) : Serve(c, "SHUTDOWN", <<>>, handle_shutdown(s, c))

(* stop(), called by the controller or by the SIGTERM handler. *)
Stop ==
    /\ ~halt
    /\ disk' = save(disk, St(tables, timeouts))
    /\ halt' = TRUE
    /\ UNCHANGED <<pc, clients, client, cdb, tables, timeouts, now, last, nLeft>>
    /\ UNCHANGED <<threads, rfile, channels, wfile, wire, asked>>

(* run() after its loop: close every client socket, clear the table. *)
Exit ==
    /\ pc = "running"
    /\ halt
    /\ clients' = {}
    /\ pc' = "stopped"
    /\ UNCHANGED <<halt, client, cdb, tables, timeouts, now, last, nLeft>>
    /\ UNCHANGED <<threads, rfile, channels, wfile, wire, asked, disk>>

(* The process ends and a new one constructs the server: __init__ reads   *)
(* self.timeouts from the store and starts with no table.                 *)
Restart ==
    /\ pc # "init"
    /\ halt' = TRUE
    /\ pc' = "init"
    /\ clients' = {}
    /\ client' = 0
    /\ cdb' = EmptyDict
    /\ tables' = EmptyDict
    /\ timeouts' = MetaGet(TimeoutsName, EmptyDict)
    /\ last' = NoRequest
    /\ channels' = EmptyDict
    /\ wfile' = EmptyDict
    /\ wire' = EmptyDict
    /\ asked' = {}
    /\ UNCHANGED <<now, nLeft, threads, rfile, disk>>

MaxLifeCmds == 3

InitLife == Constructed /\ nLeft = MaxLifeCmds

NextLife ==
    \/ Start
    \/ Accept
    \/ \E c \in clients, k \in Keys, d \in Elems : Set(c, k, d)
    \/ \E c \in clients : Unknown(c)
    \/ \E c \in clients : Save(c)
    \/ \E c \in clients : Shutdown(c)
    \/ Stop
    \/ Exit

SpecLife == InitLife /\ [][NextLife]_vars

(* The snapshot across a restart: a state is built, saved, and the       *)
(* process starts again.  MOVE takes any name for the database.           *)

DbNames == {"1", "timeouts"}

MaxSnapCmds == 5

InitSnap == Constructed /\ nLeft = MaxSnapCmds

NextSnap ==
    \/ Start
    \/ Accept
    \/ \E c \in clients, k \in Keys, d \in Elems : Set(c, k, d)
    \/ \E c \in clients, k \in Keys, d \in Elems : RPush(c, k, d)
    \/ \E c \in clients, k \in Keys, f \in Fields, d \in Elems : HSet(c, k, f, d)
    \/ \E c \in clients, k \in Keys, w \in Whens : ExpireAt(c, k, w)
    \/ \E c \in clients, d \in DbArgs : Select(c, d)
    \/ \E c \in clients, k \in Keys, d \in DbNames : Move(c, k, d)
    \/ \E c \in clients : Save(c)
    \/ Restart

SpecSnap == InitSnap /\ [][NextSnap]_vars

(* The counters: INCR, INCRBY, DECR, DECRBY on absent keys, on numbers,  *)
(* on other strings and on lists.                                         *)

Amounts == {"1", "2"}

MaxCountCmds == 3

InitCount == Constructed /\ nLeft = MaxCountCmds

NextCount ==
    \/ Start
    \/ Accept
    \/ \E c \in clients, k \in Keys, d \in Data : Set(c, k, d)
    \/ \E c \in clients, k \in Keys, d \in Elems : LPush(c, k, d)
    \/ \E c \in clients, k \in Keys : Incr(c, k)
    \/ \E c \in clients, k \in Keys, n \in Amounts : IncrBy(c, k, n)
    \/ \E c \in clients, k \in Keys : Decr(c, k)
    \/ \E c \in clients, k \in Keys, n \in Amounts : DecrBy(c, k, n)

SpecCount == InitCount /\ [][NextCount]_vars

(* Keys of every origin, with deadlines that pass, read by TYPE and      *)
(* EXISTS.                                                                *)
NextType ==
    \/ Start
    \/ Tick
    \/ Accept
    \/ \E c \in clients, k \in Keys, d \in Elems : Set(c, k, d)
    \/ \E c \in clients, k \in Keys : Incr(c, k)
    \/ \E c \in clients, k \in Keys, d \in Elems : LPush(c, k, d)
    \/ \E c \in clients, k \in Keys, f \in Fields, d \in Elems : HSet(c, k, f, d)
    \/ \E c \in clients, k \in Keys, w \in Whens : ExpireAt(c, k, w)
    \/ \E c \in clients, k \in Keys : Del(c, k)
    \/ \E c \in clients, k \in Keys : Type(c, k)
    \/ \E c \in clients, k \in Keys : Exists(c, k)

SpecType == Init /\ [][NextType]_vars

-----------------------------------------------------------------------------
(* ThreadedRedisServer: one thread per connection, each running thread(). *)
(* The threads share self.tables and take no lock; the interpreter may    *)
(* switch threads between any two bytecodes, so a handler is a sequence   *)
(* of steps.  The requests of this specification are INCRBY.              *)

Threads == 1..MaxThreads

InitThreaded == Constructed /\ nLeft = MaxThreadCmds

ThreadFrame ==
    <<halt, pc, client, now, last, channels, wfile, wire, asked, disk, rfile>>

(* thread(): register the connection and select(client, 0). *)
TStart(t) ==
    /\ threads[t].pc = "new"
    /\ clients' = clients \cup {t}
    /\ cdb' = Put(cdb, t, 0)
    /\ tables' = select(St(tables, timeouts), 0).tables
    /\ threads' = [threads EXCEPT ![t].pc = "idle"]
    /\ UNCHANGED <<timeouts, nLeft>>
    /\ UNCHANGED ThreadFrame

(* handle() reads INCRBY key by; handle_incrby calls check_ttl. *)
TRecv(t, key, by) ==
    /\ threads[t].pc = "idle"
    /\ Live
    /\ \E S \in SampleSets(timeouts) :
         LET s == check_ttl(Sweep(St(tables, timeouts), t, S), t, key)
         IN tables' = s.tables /\ timeouts' = s.timeouts
    /\ threads' = [threads EXCEPT ![t].pc = "read", ![t].key = key, ![t].by = by]
    /\ nLeft' = nLeft - 1
    /\ UNCHANGED <<clients, cdb>>
    /\ UNCHANGED ThreadFrame

(* int(client.table[key]), the right-hand side of the first assignment. *)
TRead(t) ==
    /\ threads[t].pc = "read"
    /\ LET tbl == tables[DbInt(cdb[t])]
           key == threads[t].key
           cur == IF key \in DOMAIN tbl THEN int(tbl[key]) ELSE Raise("KeyError")
       IN threads' = IF cur.t = "raise" THEN [threads EXCEPT ![t].pc = "except"]
                     ELSE [threads EXCEPT ![t].pc = "store", ![t].tmp = cur.v]
    /\ UNCHANGED <<clients, cdb, tables, timeouts, nLeft>>
    /\ UNCHANGED ThreadFrame

(* client.table[key] = <the int just computed> *)
TStore(t) ==
    /\ threads[t].pc = "store"
    /\ tables' = [tables EXCEPT ![DbInt(cdb[t])] =
                      Put(@, threads[t].key, PyInt(threads[t].tmp))]
    /\ threads' = [threads EXCEPT ![t].pc = "add"]
    /\ UNCHANGED <<clients, cdb, timeouts, nLeft>>
    /\ UNCHANGED ThreadFrame

(* client.table[key] += int(by): load the item and add. *)
TAdd(t) ==
    /\ threads[t].pc = "add"
    /\ LET tbl == tables[DbInt(cdb[t])]
           key == threads[t].key
           cur == IF key \in DOMAIN tbl THEN int(tbl[key]) ELSE Raise("KeyError")
           inc == int(PyStr(threads[t].by))
       IN threads' = IF cur.t = "raise" \/ inc.t = "raise"
                     THEN [threads EXCEPT ![t].pc = "except"]
                     ELSE [threads EXCEPT ![t].pc = "store2",
                                          ![t].tmp = cur.v + inc.v]
    /\ UNCHANGED <<clients, cdb, tables, timeouts, nLeft>>
    /\ UNCHANGED ThreadFrame

(* client.table[key] += int(by): store the sum. *)
TStore2(t) ==
    /\ threads[t].pc = "store2"
    /\ tables' = [tables EXCEPT ![DbInt(cdb[t])] =
                      Put(@, threads[t].key, PyInt(threads[t].tmp))]
    /\ threads' = [threads EXCEPT ![t].pc = "return"]
    /\ UNCHANGED <<clients, cdb, timeouts, nLeft>>
    /\ UNCHANGED ThreadFrame

(* except (KeyError, TypeError, ValueError): client.table[key] = 1 *)
TExcept(t) ==
    /\ threads[t].pc = "except"
    /\ tables' = [tables EXCEPT ![DbInt(cdb[t])] = Put(@, threads[t].key, PyInt(1))]
    /\ threads' = [threads EXCEPT ![t].pc = "return"]
    /\ UNCHANGED <<clients, cdb, timeouts, nLeft>>
    /\ UNCHANGED ThreadFrame

(* return client.table[key]; handle() dumps it. *)
TReturn(t) ==
    /\ threads[t].pc = "return"
    /\ threads[t].key \in DOMAIN tables[DbInt(cdb[t])]
    /\ LET reply == dump(tables[DbInt(cdb[t])][threads[t].key])
       IN threads' = [threads EXCEPT
                         ![t].pc = "idle",
                         ![t].done = Append(@, [key |-> threads[t].key,
                                                by |-> threads[t].by,
                                                reply |-> reply])]
    /\ UNCHANGED <<clients, cdb, tables, timeouts, nLeft>>
    /\ UNCHANGED ThreadFrame

NextThreaded ==
    \/ \E t \in Threads : TStart(t)
    \/ \E t \in Threads, k \in Keys, n \in Data : TRecv(t, k, n)
    \/ \E t \in Threads : TRead(t)
    \/ \E t \in Threads : TStore(t)
    \/ \E t \in Threads : TAdd(t)
    \/ \E t \in Threads : TStore2(t)
    \/ \E t \in Threads : TExcept(t)
    \/ \E t \in Threads : TReturn(t)

SpecThreaded == InitThreaded /\ [][NextThreaded]_vars

-----------------------------------------------------------------------------
(* Vocabulary of the properties *)

Conns == DOMAIN cdb

DbNums == {ParseInt(d) : d \in DbArgs}

(* The step serves the request cmd of connection c. *)
Served(c, cmd) == nLeft' = nLeft - 1 /\ last'.conn = c /\ last'.cmd = cmd

(* The step serves the request cmd of connection c on key k. *)
ServedKey(c, cmd, k) ==
    Served(c, cmd) /\ Len(last'.args) > 0 /\ last'.args[1] = k

Now(c) == tables[DbInt(cdb[c])]

After(c) == tables'[DbInt(cdb[c])]

IsErrorReply(r) == Len(r) >= 5 /\ SubSeq(r, 1, 5) = "-ERR "

WrongType == dump(BAD_VALUE)

(* The time a stored deadline stands for. *)
Deadline(o) == IF o.t = "str" THEN ParseInt(o.v) ELSE o.v

(* C1: every entry of the expiration table names a key that exists in    *)
(* the database the entry names.                                          *)
C1_EntriesHaveKeys ==
    \A e \in DOMAIN timeouts :
        \E n \in DbNums, k \in Keys :
            /\ e = TKey(n, k)
            /\ DbInt(n) \in DOMAIN tables
            /\ k \in DOMAIN tables[DbInt(n)]

(* The handler of a command that reads key k. *)
Reader(cmd, s, c, k) ==
    CASE cmd = "GET" -> handle_get(s, c, k)
      [] cmd = "EXISTS" -> handle_exists(s, c, k)
      [] cmd = "TYPE" -> handle_type(s, c, k)
      [] cmd = "TTL" -> handle_ttl(s, c, k)

(* C2: a command that reads a key whose deadline has passed replies and  *)
(* leaves the state as it does when the key has been deleted first.       *)
C2_LazyExpiration ==
    [][\A c \in Conns, k \in Keys, cmd \in {"GET", "EXISTS", "TYPE", "TTL"} :
          LET e == TKey(cdb[c], k)
              gone == StOf(handle_del(St(tables, timeouts), c, k))
              r == Reader(cmd, gone, c, k)
          IN (/\ ServedKey(c, cmd, k)
              /\ e \in DOMAIN timeouts
              /\ Deadline(timeouts[e]) <= now)
             => (/\ last'.reply = dump(r.ret)
                 /\ tables' = r.tables
                 /\ timeouts' = r.timeouts)]_vars

(* The types of value a command works on. *)
TypesOf(cmd) ==
    CASE cmd \in {"GET", "GETSET", "INCR", "INCRBY"} -> {"str", "int"}
      [] cmd \in {"LPUSH", "RPUSH"} -> {"deque"}
      [] cmd \in {"HSET"} -> {"dict"}

(* C3: a command on a key that holds a value of another type replies the *)
(* wrong-type error and leaves the value as it is.                        *)
C3_WrongTypeError ==
    [][\A c \in Conns, k \in Keys,
          cmd \in {"GET", "GETSET", "INCR", "INCRBY", "LPUSH", "RPUSH", "HSET"} :
          (/\ ServedKey(c, cmd, k)
           /\ k \in DOMAIN Now(c)
           /\ Now(c)[k].t \notin TypesOf(cmd))
          => (/\ last'.reply = WrongType
              /\ k \in DOMAIN After(c)
              /\ After(c)[k] = Now(c)[k])]_vars

(* C4: RENAME a b of an existing key a, a # b, leaves a absent, b with   *)
(* a's value, b's expiration entry equal to a's former entry and no      *)
(* entry under a.                                                         *)
C4_RenameMovesEntry ==
    [][\A c \in Conns, a \in Keys, b \in Keys :
          LET ea == TKey(cdb[c], a)
              eb == TKey(cdb[c], b)
          IN (/\ ServedKey(c, "RENAME", a)
              /\ last'.args[2] = b
              /\ a # b
              /\ a \in DOMAIN Now(c))
             => (/\ a \notin DOMAIN After(c)
                 /\ b \in DOMAIN After(c)
                 /\ After(c)[b] = Now(c)[a]
                 /\ ea \notin DOMAIN timeouts'
                 /\ (eb \in DOMAIN timeouts') = (ea \in DOMAIN timeouts)
                 /\ ea \in DOMAIN timeouts => timeouts'[eb] = timeouts[ea])]_vars

(* C5: after MOVE k d has replied 1, k is absent from the source and a   *)
(* connection that issues SELECT d finds k there, with the value and the  *)
(* deadline k had in the source.                                          *)
C5_MoveThenSelect ==
    [][\A c \in Conns, k \in Keys, d \in DbArgs :
          LET sel == handle_select(St(tables', timeouts'), c, PyStr(d))
              seen == sel.tables[DbInt(sel.db)]
              e == TKey(cdb[c], k)
          IN (/\ ServedKey(c, "MOVE", k)
              /\ last'.args[2] = d
              /\ last'.reply = dump(PyInt(1)))
             => (/\ k \notin DOMAIN After(c)
                 /\ k \in DOMAIN seen
                 /\ seen[k] = Now(c)[k]
                 /\ e \in DOMAIN timeouts
                    => /\ TKey(sel.db, k) \in DOMAIN sel.timeouts
                       /\ sel.timeouts[TKey(sel.db, k)] = timeouts[e])]_vars

(* C6: a MOVE that replies 0 changes no database and no expiration       *)
(* entry.                                                                 *)
C6_MoveRefusedChangesNothing ==
    [][\A c \in Conns, k \in Keys :
          (ServedKey(c, "MOVE", k) /\ last'.reply = dump(PyInt(0)))
          => (/\ \A d \in DOMAIN tables : tables'[d] = tables[d]
              /\ timeouts' = timeouts)]_vars

C8_TtlReply ==
    [][\A c \in Conns, k \in Keys :
          LET e == TKey(cdb[c], k)
              want == IF k \notin DOMAIN Now(c) THEN 0 - 2
                      ELSE IF e \notin DOMAIN timeouts THEN 0 - 1
                      ELSE IF Deadline(timeouts[e]) <= now THEN 0 - 2
                      ELSE Deadline(timeouts[e]) - now
          IN ServedKey(c, "TTL", k) => last'.reply = dump(PyInt(want))]_vars

(* The databases once every thread has selected database 0. *)
Selected == St(Put(EmptyDict, DbInt(0), EmptyDict), EmptyDict)

(* The requests in pend, served one after the other from state s in some *)
(* order that keeps each connection's own order, get the replies that    *)
(* were sent and end in the present databases.                           *)
RECURSIVE SerialFrom(_, _)
SerialFrom(s, pend) ==
    IF \A t \in Threads : pend[t] = <<>>
    THEN s.tables = tables /\ s.timeouts = timeouts
    ELSE \E t \in Threads :
            /\ pend[t] # <<>>
            /\ LET q == Head(pend[t])
                   r == handle_incrby(s, t, q.key, PyStr(q.by))
               IN /\ dump(r.ret) = q.reply
                  /\ SerialFrom(StOf(r), [pend EXCEPT ![t] = Tail(@)])

(* C9: when the threads have served their requests, the replies and the  *)
(* databases are those of some serial execution of the requests.         *)
C9_Serializable ==
    (\A t \in Threads : threads[t].pc = "idle")
    => SerialFrom(Selected, [t \in Threads |-> threads[t].done])

(* C10: an unknown command, or a known one with the wrong number of      *)
(* arguments, gets an error reply, changes no state and leaves the        *)
(* connection open.                                                       *)
C10_BadRequestGetsError ==
    [][\A c \in Conns :
          (Served(c, "NOSUCH") \/ (Served(c, "GET") /\ last'.args = <<>>))
          => (/\ IsErrorReply(last'.reply)
              /\ tables' = tables
              /\ timeouts' = timeouts
              /\ clients' = clients
              /\ pc' = "running")]_vars

(* C11: when the request of a connection fails with an exception, that   *)
(* connection is closed and removed from the client table, and no other. *)
C11_FailureClosesOwnConnection ==
    [][\A c \in Conns :
          (nLeft' = nLeft - 1 /\ last'.conn = c /\ last'.exc # "")
          => clients' = clients \ {c}]_vars

Sent(wr, wf, c) == wr[c] \o wf[c]

(* How many times the sequence l holds x. *)
Count(l, x) == Cardinality({i \in 1..Len(l) : l[i] = x})

(* The open connections whose SUBSCRIBE ch is in force. *)
Subscribers(ch) == {c \in clients : <<c, ch>> \in asked}

(* C13: PUBLISH ch msg sends the envelope once to every connection that  *)
(* is subscribed to ch, nothing to the others, and replies the number of *)
(* recipients.                                                            *)
C13_PublishDelivers ==
    [][\A p \in Conns, ch \in Channels, m \in Messages :
          (ServedKey(p, "PUBLISH", ch) /\ last'.args[2] = m)
          => (/\ \A c \in Conns :
                    Count(Sent(wire', wfile', c), Envelope(ch, m))
                      - Count(Sent(wire, wfile, c), Envelope(ch, m))
                    = IF c \in Subscribers(ch) THEN 1 ELSE 0
              /\ last'.reply = dump(PyInt(Cardinality(Subscribers(ch)))))]_vars

(* C14: when the publisher gets the reply to the command it sends after  *)
(* a PUBLISH, the envelope of that PUBLISH has been written out (not just *)
(* buffered) to every other connection subscribed to the channel.        *)
C14_PublishIsSynchronous ==
    [][\A p \in Conns :
          (/\ last.cmd = "PUBLISH" /\ last.conn = p /\ last.exc = ""
           /\ nLeft' = nLeft - 1 /\ last'.conn = p /\ last'.reply # "")
          => \A c \in Subscribers(last.args[1]) \ {p} :
                Count(wire'[c], Envelope(last.args[1], last.args[2])) > 0]_vars

(* Where the server is in its life: p is pc, h is halt. *)
Phase(p, h) ==
    CASE p \in {"init", "stopped"} -> "Stopped"
      [] p = "running" /\ ~h -> "Running"
      [] p = "running" /\ h -> "Stopping"
      [] OTHER -> "Crashed"

(* C15: the server only goes Stopped -> Running -> Stopping -> Stopped,  *)
(* and the step that leaves Running writes a snapshot of the state.      *)
C15_SnapshotBeforeExit ==
    [][/\ Phase(pc', halt') # Phase(pc, halt)
          => <<Phase(pc, halt), Phase(pc', halt')>>
                \in {<<"Stopped", "Running">>, <<"Running", "Stopping">>,
                     <<"Stopping", "Stopped">>}
       /\ (Phase(pc, halt) = "Running" /\ Phase(pc', halt') # "Running")
          => disk' = save(disk, St(tables', timeouts'))]_vars

(* C16: when the process restarts right after a SAVE, the deadlines are  *)
(* those of before, and every read on the database of every connection   *)
(* of before replies as it did.                                          *)
C16_SnapshotRoundTrip ==
    [][(pc # "init" /\ pc' = "init" /\ last.cmd = "SAVE" /\ last.exc = "")
       => /\ timeouts' = timeouts
          /\ \A c \in clients, k \in Keys,
                cmd \in {"GET", "EXISTS", "TYPE", "TTL"} :
                dump(Reader(cmd, select(St(tables', timeouts'), cdb[c]),
                            c, k).ret)
                  = dump(Reader(cmd, St(tables, timeouts), c, k).ret)]_vars

(* C17: a counter command on a key whose value is no integer replies an  *)
(* error and leaves the value as it is.                                  *)
C17_NotIntegerError ==
    [][\A c \in Conns, k \in Keys, cmd \in {"INCR", "INCRBY", "DECR", "DECRBY"} :
          (/\ ServedKey(c, cmd, k)
           /\ k \in DOMAIN Now(c)
           /\ int(Now(c)[k]).t = "raise")
          => (/\ IsErrorReply(last'.reply)
              /\ k \in DOMAIN After(c)
              /\ After(c)[k] = Now(c)[k])]_vars

(* The integer a counter command starts from: 0 for an absent key. *)
Base(c, k) == IF k \in DOMAIN Now(c) THEN int(Now(c)[k]).v ELSE 0

(* The key is absent or holds an integer. *)
Countable(c, k) == k \in DOMAIN Now(c) => int(Now(c)[k]).t = "int"

(* C18: INCRBY k n on an absent key or on the integer v stores and       *)
(* replies v + n (v = 0 when absent); INCR is INCRBY 1.                   *)
C18_IncrByAdds ==
    [][\A c \in Conns, k \in Keys, cmd \in {"INCR", "INCRBY"} :
          LET n == IF cmd = "INCR" THEN 1 ELSE ParseInt(last'.args[2])
          IN (ServedKey(c, cmd, k) /\ Countable(c, k))
             => (/\ last'.reply = dump(PyInt(Base(c, k) + n))
                 /\ k \in DOMAIN After(c)
                 /\ int(After(c)[k]) = PyInt(Base(c, k) + n))]_vars

(* C19: DECRBY k n replies and does what INCRBY k (-n) does, DECR k what *)
(* DECRBY k 1 does, and on an absent or integer key the reply is an      *)
(* integer.                                                              *)
C19_DecrIsIncrNegated ==
    [][\A c \in Conns, k \in Keys, cmd \in {"DECR", "DECRBY"} :
          LET n == IF cmd = "DECR" THEN 1 ELSE ParseInt(last'.args[2])
              r == handle_incrby(St(tables, timeouts), c, k, PyInt(0 - n))
          IN ServedKey(c, cmd, k)
             => (/\ last'.reply = dump(r.ret)
                 /\ tables' = r.tables
                 /\ timeouts' = r.timeouts
                 /\ Countable(c, k) => r.ret.t = "int")]_vars

(* C20: in every state, for every open connection and key, TYPE replies  *)
(* none exactly when EXISTS reports that the key does not exist.         *)
C20_TypeNoneIffAbsent ==
    \A c \in clients, k \in Keys :
        LET s == St(tables, timeouts)
        IN (dump(handle_type(s, c, k).ret) = dump(RedisMessage("none")))
           <=> (handle_exists(s, c, k).ret = PyBool(FALSE))

(* TYPE or EXISTS has been served on a key that is still there after     *)
(* its deadline has passed.                                              *)
C20_Witness ==
    /\ last.cmd \in {"TYPE", "EXISTS"}
    /\ last.conn \in clients
    /\ last.args[1] \in DOMAIN tables[DbInt(cdb[last.conn])]
    /\ TKey(cdb[last.conn], last.args[1]) \in DOMAIN timeouts
    /\ Deadline(timeouts[TKey(cdb[last.conn], last.args[1])]) <= now

(* C21: SELECT changes the database of the connection that sent it and   *)
(* nothing else: no database loses, gains or changes a key, no deadline  *)
(* changes, no other connection moves; an accepted connection starts on  *)
(* database 0.                                                            *)
C21_SelectMovesOnlyThePointer ==
    [][/\ \A c \in Conns, d \in DbArgs :
             ServedKey(c, "SELECT", d)
             => (/\ cdb'[c] = ParseInt(d)
                 /\ \A o \in Conns \ {c} : cdb'[o] = cdb[o]
                 /\ \A n \in DOMAIN tables : tables'[n] = tables[n]
                 /\ \A n \in DOMAIN tables' \ DOMAIN tables :
                       tables'[n] = EmptyDict
                 /\ timeouts' = timeouts)
       /\ \A c \in DOMAIN cdb' \ DOMAIN cdb : cdb'[c] = 0]_vars

(* A SELECT to another database has been served while the database left *)
(* holds a key and a second connection is open.                          *)
C21_Witness ==
    /\ last.cmd = "SELECT"
    /\ last.exc = ""
    /\ last.conn \in clients
    /\ cdb[last.conn] = 1
    /\ DbInt(0) \in DOMAIN tables
    /\ tables[DbInt(0)] # EmptyDict
    /\ Cardinality(clients) > 1

-----------------------------------------------------------------------------
(* The key commands on one connection. *)

MaxKeyCmds == 4

InitKeys == Constructed /\ nLeft = MaxKeyCmds

NextKeys ==
    \/ Start
    \/ AcceptUpTo(1)
    \/ \E c \in clients, k \in Keys, d \in Data : Set(c, k, d)
    \/ \E c \in clients, k \in Keys : Get(c, k)
    \/ \E c \in clients, k \in Keys, d \in Data : AppendCmd(c, k, d)
    \/ \E c \in clients, k \in Keys, n \in Whens : Expire(c, k, n)
    \/ \E c \in clients, k \in Keys, w \in Whens : ExpireAt(c, k, w)
    \/ \E c \in clients, k \in Keys, n \in Whens : PExpire(c, k, n)
    \/ \E c \in clients, k \in Keys, w \in Whens : PExpireAt(c, k, w)
    \/ \E c \in clients, k \in Keys : Persist(c, k)
    \/ \E c \in clients, k \in Keys : Exists(c, k)
    \/ \E c \in clients, k \in Keys : Del(c, k)
    \/ \E c \in clients, k1 \in Keys, k2 \in Keys : DelMany(c, <<k1, k2>>)
    \/ \E c \in clients, k \in Keys, k2 \in Keys : Rename(c, k, k2)
    \/ \E c \in clients, k \in Keys, k2 \in Keys : RenameNx(c, k, k2)

SpecKeys == InitKeys /\ [][NextKeys]_vars

(* C22: EXPIRE, EXPIREAT, PEXPIRE and PEXPIREAT reply 0 on an absent key *)
(* and leave the state as it is; on an existing key they reply 1 and the *)
(* key has an expiration entry afterwards.                                *)
C22_ExpireFamilyReply ==
    [][\A c \in Conns, k \in Keys,
          cmd \in {"EXPIRE", "EXPIREAT", "PEXPIRE", "PEXPIREAT"} :
          ServedKey(c, cmd, k)
          => IF k \notin DOMAIN Now(c)
             THEN /\ last'.reply = dump(PyInt(0))
                  /\ tables' = tables
                  /\ timeouts' = timeouts
             ELSE /\ last'.reply = dump(PyInt(1))
                  /\ TKey(cdb[c], k) \in DOMAIN timeouts']_vars

(* C23: DEL k1 ... kn replies the number of listed keys that existed,    *)
(* removes those and leaves every other key as it is; a GET of a removed  *)
(* key then replies nil.                                                  *)
C23_DelRemovesListedKeys ==
    [][\A c \in Conns :
          LET ks == {last'.args[i] : i \in 1..Len(last'.args)}
          IN Served(c, "DEL")
             => (/\ last'.reply = dump(PyInt(Cardinality(ks \cap DOMAIN Now(c))))
                 /\ DOMAIN After(c) = DOMAIN Now(c) \ ks
                 /\ \A k \in DOMAIN After(c) : After(c)[k] = Now(c)[k]
                 /\ \A k \in ks :
                       dump(handle_get(St(tables', timeouts'), c, k).ret)
                         = dump(EMPTY_SCALAR))]_vars

(* C24: a DEL k served right after a DEL k of the same connection        *)
(* replies 0 and changes nothing; a PERSIST k served right after a        *)
(* PERSIST k changes neither a database nor an expiration entry.          *)
C24_DelAndPersistIdempotent ==
    [][\A c \in Conns, k \in Keys :
          /\ (ServedKey(c, "DEL", k) /\ last'.again)
             => (/\ last'.reply = dump(PyInt(0))
                 /\ tables' = tables
                 /\ timeouts' = timeouts)
          /\ (ServedKey(c, "PERSIST", k) /\ last'.again)
             => (/\ tables' = tables
                 /\ timeouts' = timeouts)]_vars

(* A DEL has been served right after the same DEL. *)
C24_Witness == last.cmd = "DEL" /\ last.again /\ last.exc = ""

(* C25: EXISTS k always gets a reply: the integer 1 when k exists, the   *)
(* integer 0 when it does not.                                            *)
C25_ExistsRepliesInteger ==
    [][\A c \in Conns, k \in Keys :
          ServedKey(c, "EXISTS", k)
          => last'.reply
               = dump(PyInt(IF k \in DOMAIN Now(c) THEN 1 ELSE 0))]_vars

(* C26: APPEND k v on a key that holds the string s replies              *)
(* len(s) + len(v), and k then holds s followed by v.                     *)
C26_AppendConcatenates ==
    [][\A c \in Conns, k \in Keys :
          (/\ ServedKey(c, "APPEND", k)
           /\ k \in DOMAIN Now(c)
           /\ Now(c)[k].t = "str")
          => LET both == Now(c)[k].v \o last'.args[2]
             IN /\ last'.reply = dump(PyInt(Len(both)))
                /\ dump(handle_get(St(tables', timeouts'), c, k).ret)
                     = dump(PyStr(both))]_vars

-----------------------------------------------------------------------------
(* Enough volatile keys in one database for handle() to sample one. *)

SweepKeys == {"a", "b", "c", "d"}

MaxSweepCmds == 9

InitSweep == Constructed /\ nLeft = MaxSweepCmds

NextSweep ==
    \/ Start
    \/ Tick
    \/ AcceptUpTo(1)
    \/ \E c \in clients, k \in SweepKeys : Set(c, k, "x")
    \/ \E c \in clients, k \in SweepKeys : ExpireAt(c, k, "1")
    \/ \E c \in clients, k \in SweepKeys : Get(c, k)

SpecSweep == InitSweep /\ [][NextSweep]_vars

(* C27: when a request is handled, a quarter of the expiration entries   *)
(* is sampled, and every sampled entry of the requester's database whose  *)
(* deadline has passed is expired: its entry is gone, and so is its key   *)
(* unless the request itself wrote that key.                              *)
C27_SweepExpiresSampledEntries ==
    [][\A c \in Conns :
          (nLeft' = nLeft - 1 /\ last'.conn = c)
          => \E S \in SampleSets(timeouts) :
                \A k \in SweepKeys :
                   LET e == TKey(cdb[c], k)
                   IN (e \in S /\ Deadline(timeouts[e]) <= now)
                      => (/\ e \notin DOMAIN timeouts'
                          /\ (k \in DOMAIN After(c)
                              => Len(last'.args) > 0 /\ last'.args[1] = k))]_vars

-----------------------------------------------------------------------------
(* The list commands on one connection. *)

Starts == {"0", "1"}

Stops == {"-1", "1"}

MaxListCmds == 4

InitList == Constructed /\ nLeft = MaxListCmds

NextList ==
    \/ Start
    \/ AcceptUpTo(1)
    \/ \E c \in clients, k \in Keys, d \in Data : LPush(c, k, d)
    \/ \E c \in clients, k \in Keys, d \in Data : RPush(c, k, d)
    \/ \E c \in clients, k \in Keys : LPop(c, k)
    \/ \E c \in clients, k \in Keys : RPop(c, k)
    \/ \E c \in clients, k \in Keys : LLen(c, k)
    \/ \E c \in clients, k \in Keys, a \in Starts, b \in Stops : LRange(c, k, a, b)

SpecList == InitList /\ [][NextList]_vars

(* The deque a table holds under key k: empty for a missing key. *)
DequeOf(tbl, k) == IF k \in DOMAIN tbl THEN tbl[k].v ELSE <<>>

(* The array reply that lists the strings of l. *)
ArrayOf(l) == dump(PyList([i \in 1..Len(l) |-> PyStr(l[i])]))

(* C28: the list commands act on key k as on a double-ended queue:       *)
(* LPUSH puts the element at the head, RPUSH at the tail, LPOP and RPOP   *)
(* take from the head and the tail and reply the element, or nil on an    *)
(* empty or missing list; LRANGE k 0 -1 replies the elements in order     *)
(* (the nil array for a missing key) and LLEN their number, and neither   *)
(* changes the queue.                                                     *)
C28_ListsRefineDeque ==
    [][\A c \in Conns, k \in Keys :
          LET q == DequeOf(Now(c), k)
              q2 == DequeOf(After(c), k)
              r == last'.reply
          IN /\ ServedKey(c, "LPUSH", k) => q2 = <<last'.args[2]>> \o q
             /\ ServedKey(c, "RPUSH", k) => q2 = q \o <<last'.args[2]>>
             /\ ServedKey(c, "LPOP", k)
                => IF q = <<>> THEN r = dump(EMPTY_SCALAR) /\ q2 = q
                   ELSE r = Bulk(Head(q)) /\ q2 = Tail(q)
             /\ ServedKey(c, "RPOP", k)
                => IF q = <<>> THEN r = dump(EMPTY_SCALAR) /\ q2 = q
                   ELSE r = Bulk(q[Len(q)]) /\ q2 = SubSeq(q, 1, Len(q) - 1)
             /\ (ServedKey(c, "LRANGE", k) /\ last'.args = <<k, "0", "-1">>)
                => /\ r = IF k \in DOMAIN Now(c) THEN ArrayOf(q)
                          ELSE dump(EMPTY_LIST)
                   /\ q2 = q
             /\ ServedKey(c, "LLEN", k)
                => r = dump(PyInt(Len(q))) /\ q2 = q]_vars

(* LRANGE k 0 -1 has been served on a list of two different elements or  *)
(* more.                                                                  *)
C28_Witness ==
    /\ last.cmd = "LRANGE"
    /\ last.args[2] = "0"
    /\ last.args[3] = "-1"
    /\ last.exc = ""
    /\ LET q == DequeOf(tables[DbInt(cdb[last.conn])], last.args[1])
       IN Len(q) >= 2 /\ q[1] # q[2] /\ last.reply = ArrayOf(q)

(* C29: while the server is running, no request other than SHUTDOWN and  *)
(* no disconnect ends the accept loop: after the step the server is      *)
(* still running, also when the request failed and the one before it had *)
(* failed too.                                                           *)
C29_RequestsKeepLoopRunning ==
    [][(/\ Phase(pc, halt) = "Running"
        /\ \/ nLeft' = nLeft - 1 /\ last'.cmd # "SHUTDOWN"
           \/ nLeft' = nLeft /\ clients' # clients /\ clients' \subseteq clients)
       => Phase(pc', halt') = "Running"]_vars

-----------------------------------------------------------------------------
(* Requests that arrive one at a time or two together. *)

PipeReqs ==
    {<<"SET", <<k, d>>>> : k \in Keys, d \in Elems}
      \cup {<<"GET", <<k>>>> : k \in Keys}

Batches ==
    {<<r>> : r \in PipeReqs} \cup {<<r1, r2>> : r1 \in PipeReqs, r2 \in PipeReqs}

MaxPipeReqs == 3

(* The requests that have arrived and have not been read. *)
Waiting(c) == Unread(c).buffer \o Unread(c).socket

(* The client of connection c sends the requests reqs in one piece; they *)
(* wait in the socket until the server reads.                            *)
Arrive(c, reqs) ==
    /\ Looping
    /\ c \in clients
    /\ Len(Waiting(c)) + Len(reqs) <= nLeft
    /\ rfile' = Put(rfile, c, [Unread(c) EXCEPT !.socket = @ \o reqs])
    /\ UNCHANGED <<halt, pc, clients, client, cdb, tables, timeouts, now, last>>
    /\ UNCHANGED <<nLeft, threads, channels, wfile, wire, asked, disk>>

(* run() finds the socket of c readable and calls handle(), which serves *)
(* the request it reads.                                                  *)
Handle(c) ==
    /\ Waiting(c) # <<>>
    /\ \/ \E k \in Keys, d \in Elems : Set(c, k, d)
       \/ \E k \in Keys : Get(c, k)

InitPipe == Constructed /\ nLeft = MaxPipeReqs

NextPipe ==
    \/ Start
    \/ AcceptUpTo(1)
    \/ \E c \in clients, reqs \in Batches : Arrive(c, reqs)
    \/ \E c \in clients : Handle(c)

(* The loop of run() goes back to select() after every pass, so a socket *)
(* that stays readable is handled.                                        *)
SpecPipe ==
    InitPipe /\ [][NextPipe]_vars /\ \A c \in 1..MaxConns : WF_vars(Handle(c))

(* C30: while the server is running, a request that has arrived on an    *)
(* open connection is eventually executed and answered, also when it     *)
(* arrived together with another and nothing is sent after it.           *)
C30_RequestsEventuallyServed ==
    \A c \in 1..MaxConns :
        (c \in clients /\ Looping /\ Waiting(c) # <<>>)
        ~> (c \notin clients \/ ~Looping \/ Waiting(c) = <<>>)

(* C31: once the server is halted no request changes a database or the  *)
(* expiration table, so that when the accept loop is left the snapshot   *)
(* on disk holds the databases and the expiration table of memory.       *)
C31_SnapshotIsFinal ==
    [][/\ (halt /\ nLeft' = nLeft - 1)
          => (tables' = tables /\ timeouts' = timeouts)
       /\ (pc = "running" /\ pc' = "stopped")
          => disk = save(disk, St(tables, timeouts))]_vars

(* C32: RENAME k k and RENAMENX k k on an existing key k leave k present *)
(* with its value, and the database with as many keys as before.         *)
C32_RenameOntoItselfKeepsKey ==
    [][\A c \in Conns, k \in Keys, cmd \in {"RENAME", "RENAMENX"} :
          (/\ ServedKey(c, cmd, k)
           /\ last'.args[2] = k
           /\ k \in DOMAIN Now(c))
          => (/\ k \in DOMAIN After(c)
              /\ After(c)[k] = Now(c)[k]
              /\ Cardinality(DOMAIN After(c)) = Cardinality(DOMAIN Now(c)))]_vars

====
